---- MODULE Spec2Model ----
(***************************************************************************)
(* trustme: throwaway certificate authorities and leaf certificates.       *)
(*                                                                         *)
(* The model follows src/trustme/__init__.py.  A text value is the         *)
(* sequence of its characters, one string per character; a character      *)
(* outside ASCII is written by its code point, "U+00E9".  A Python value   *)
(* handed to issue_server_cert is a record [type, chars] with type "str"   *)
(* (unicode text) or "bytes".                                              *)
(*                                                                         *)
(* Random material (rsa.generate_private_key, random_text,                 *)
(* x509.random_serial_number) is drawn from a source that never repeats:   *)
(* every construction draws one key, one name suffix and one serial        *)
(* number, in lockstep, so the n-th construction's draws are all named n.  *)
(***************************************************************************)
EXTENDS Integers, Sequences, FiniteSets, TLC

VARIABLES cas, generated, ret

vars == <<cas, generated, ret>>

\* ------------------------------------------------------------------ bounds

\* Key pairs generated in one run (CAs and leaves together).
MaxObjects == 4
\* Hostnames in one issue_server_cert call.
MaxHosts == 2

\* ------------------------------------------------------------- text helpers
\* (A value computed once and read several times is handed to a helper
\* operator as a parameter.)

Min(a, b) == IF a < b THEN a ELSE b
Max(a, b) == IF a > b THEN a ELSE b

RECURSIVE Pow2(_)
Pow2(n) == IF n <= 0 THEN 1 ELSE 2 * Pow2(n - 1)

\* The first place of sep in s.
FirstIndex(s, sep) ==
    CHOOSE k \in 1..Len(s) : s[k] = sep /\ \A j \in 1..(k - 1) : s[j] # sep

\* str.split(sep): the pieces between the occurrences of sep.
RECURSIVE Split(_, _)
SplitAt(s, sep, i) ==
    <<SubSeq(s, 1, i - 1)>> \o Split(SubSeq(s, i + 1, Len(s)), sep)
Split(s, sep) ==
    IF \E i \in 1..Len(s) : s[i] = sep THEN SplitAt(s, sep, FirstIndex(s, sep))
    ELSE <<s>>

\* sep.join(parts)
RECURSIVE Join(_, _)
Join(parts, sep) ==
    IF Len(parts) = 0 THEN <<>>
    ELSE IF Len(parts) = 1 THEN parts[1]
    ELSE parts[1] \o sep \o Join(Tail(parts), sep)

DecDigits == <<"0", "1", "2", "3", "4", "5", "6", "7", "8", "9">>
HexLower  == <<"0", "1", "2", "3", "4", "5", "6", "7", "8", "9",
               "a", "b", "c", "d", "e", "f">>
HexUpper  == <<"0", "1", "2", "3", "4", "5", "6", "7", "8", "9",
               "A", "B", "C", "D", "E", "F">>
Lower == <<"a", "b", "c", "d", "e", "f", "g", "h", "i", "j", "k", "l", "m",
           "n", "o", "p", "q", "r", "s", "t", "u", "v", "w", "x", "y", "z">>
Upper == <<"A", "B", "C", "D", "E", "F", "G", "H", "I", "J", "K", "L", "M",
           "N", "O", "P", "Q", "R", "S", "T", "U", "V", "W", "X", "Y", "Z">>

Range(f) == {f[i] : i \in DOMAIN f}
IndexIn(tbl, c) == CHOOSE i \in DOMAIN tbl : tbl[i] = c

IsDecDigit(c) == c \in Range(DecDigits)
IsHexDigit(c) == c \in Range(HexLower) \cup Range(HexUpper)
DecVal(c) == IndexIn(DecDigits, c) - 1
HexVal(c) == IF c \in Range(HexLower) THEN IndexIn(HexLower, c) - 1
             ELSE IndexIn(HexUpper, c) - 1

\* int(s, 10) and int(s, 16) of a string of digits.
RECURSIVE DecInt(_)
DecInt(s) == IF Len(s) = 0 THEN 0
             ELSE 10 * DecInt(SubSeq(s, 1, Len(s) - 1)) + DecVal(s[Len(s)])
RECURSIVE HexInt(_)
HexInt(s) == IF Len(s) = 0 THEN 0
             ELSE 16 * HexInt(SubSeq(s, 1, Len(s) - 1)) + HexVal(s[Len(s)])

RECURSIVE StripZeros(_)
StripZeros(s) == IF Len(s) > 1 /\ s[1] = "0" THEN StripZeros(Tail(s)) ELSE s

\* A call's outcome: a value, or the exception it raised.
Nothing == [none |-> TRUE]
Ok(v) == [raised |-> "", value |-> v]
Raise(e) == [raised |-> e, value |-> Nothing]

\* ------------------------------------------------- ipaddress (standard library)

NoIP == [class |-> "None", words |-> <<>>, prefixlen |-> 0]

\* IPv4Address._parse_octet: ASCII digits, at most three, no leading zero, <= 255.
IsOctet(s) ==
    /\ Len(s) \in 1..3
    /\ \A i \in 1..Len(s) : IsDecDigit(s[i])
    /\ (Len(s) > 1 => s[1] # "0")
    /\ DecInt(s) <= 255

\* IPv4Address(text): four octets separated by dots.
IsOctets(octets) == Len(octets) = 4 /\ \A i \in 1..4 : IsOctet(octets[i])
IsIPv4Text(s) == IsOctets(Split(s, "."))

OctetValues(octets) == [i \in 1..4 |-> DecInt(octets[i])]
IPv4Words(s) == OctetValues(Split(s, "."))

\* IPv6Address._parse_hextet: one to four hexadecimal digits.
IsHextet(s) == Len(s) \in 1..4 /\ \A i \in 1..Len(s) : IsHexDigit(s[i])

\* A dotted-quad tail as its two hextets, each a pair <<"v4", n>>.
V4Pairs(w) == << <<"v4", w[1] * 256 + w[2]>>, <<"v4", w[3] * 256 + w[4]>> >>

\* IPv6Address._ip_int_from_string, the text split on ":" with a dotted-quad
\* tail already replaced by its two hextets.  (Scope ids, "%eth0", are left out.)
IPv6Tail(parts, last) ==
    IF \E i \in 1..Len(last) : last[i] = "."
    THEN IF IsIPv4Text(last)
         THEN Ok(SubSeq(parts, 1, Len(parts) - 1) \o V4Pairs(IPv4Words(last)))
         ELSE Raise("AddressValueError")
    ELSE Ok(parts)
IPv6PartsOf(parts) == IPv6Tail(parts, parts[Len(parts)])
IPv6Parts(s) == IPv6PartsOf(Split(s, ":"))

\* A part is text (a hextet to parse) or a pair <<"v4", n>>.
IsV4Pair(p) == Len(p) = 2 /\ p[1] = "v4"
PartOk(p) == IsV4Pair(p) \/ IsHextet(p)
PartVal(p) == IF IsV4Pair(p) THEN p[2] ELSE HexInt(p)

\* The index of the "::" among the inner parts, 0 when there is none, -1 when
\* there are several.
SkipOf(empties) ==
    IF empties = {} THEN 0
    ELSE IF Cardinality(empties) > 1 THEN -1
    ELSE CHOOSE i \in empties : TRUE
SkipIndex(parts) == SkipOf({i \in 2..(Len(parts) - 1) : parts[i] = <<>>})

\* With a "::": hi parts before it, lo parts after it, the rest zeros; an
\* empty first or last part is allowed only next to the "::".
SkipLayout(emptyFirst, emptyLast, hi, lo) ==
    IF (emptyFirst /\ hi # 0) \/ (emptyLast /\ lo # 0) \/ 8 - (hi + lo) < 1
    THEN Raise("AddressValueError")
    ELSE Ok([hi |-> hi, lo |-> lo, skipped |-> 8 - (hi + lo)])

Layout(parts, n, skip) ==
    IF n < 3 \/ n > 9 \/ skip = -1 THEN Raise("AddressValueError")
    ELSE IF skip > 0
    THEN SkipLayout(parts[1] = <<>>, parts[n] = <<>>,
                    IF parts[1] = <<>> THEN skip - 2 ELSE skip - 1,
                    IF parts[n] = <<>> THEN n - skip - 1 ELSE n - skip)
    ELSE IF n # 8 \/ parts[1] = <<>> \/ parts[n] = <<>>
         THEN Raise("AddressValueError")
         ELSE Ok([hi |-> 8, lo |-> 0, skipped |-> 0])
IPv6Layout(parts) == Layout(parts, Len(parts), SkipIndex(parts))

IPv6Words(parts, n, L) ==
    IF /\ \A i \in 1..L.hi : PartOk(parts[i])
       /\ \A i \in 1..L.lo : PartOk(parts[n - L.lo + i])
    THEN Ok([i \in 1..L.hi |-> PartVal(parts[i])]
            \o [i \in 1..L.skipped |-> 0]
            \o [i \in 1..L.lo |-> PartVal(parts[n - L.lo + i])])
    ELSE Raise("AddressValueError")
IPv6FromLayout(parts, lay) ==
    IF lay.raised # "" THEN lay ELSE IPv6Words(parts, Len(parts), lay.value)
IPv6FromParts(pr) ==
    IF pr.raised # "" THEN pr ELSE IPv6FromLayout(pr.value, IPv6Layout(pr.value))

\* IPv6Address(text): the eight 16-bit words, or AddressValueError.
IPv6Parse(s) ==
    IF \E i \in 1..Len(s) : s[i] = "/" THEN Raise("AddressValueError")
    ELSE IPv6FromParts(IPv6Parts(s))

V6Address(v6) ==
    IF v6.raised = ""
    THEN Ok([class |-> "IPv6Address", words |-> v6.value, prefixlen |-> 128])
    ELSE Raise("ValueError")

\* ipaddress.ip_address(text): IPv4Address, else IPv6Address, else ValueError.
ip_address(s) ==
    IF IsIPv4Text(s)
    THEN Ok([class |-> "IPv4Address", words |-> IPv4Words(s), prefixlen |-> 32])
    ELSE V6Address(IPv6Parse(s))

\* _prefix_from_prefix_string: ASCII digits, at most max_prefixlen.
\* (The dotted netmask and hostmask forms of an IPv4 prefix are left out.)
PrefixOk(digits, maxlen) == Len(digits) <= 3 /\ DecInt(digits) <= maxlen
IsPrefixText(s, maxlen) ==
    /\ Len(s) >= 1
    /\ \A i \in 1..Len(s) : IsDecDigit(s[i])
    /\ PrefixOk(StripZeros(s), maxlen)
PrefixLen(s) == DecInt(StripZeros(s))

\* strict=True: no bit of the address below the prefix is set.
HostBitsClear(words, width, prefixlen) ==
    \A i \in 1..Len(words) :
        words[i] % Pow2(Min(width, Max(0, i * width - prefixlen))) = 0

V4NetworkOk(addr, hasPrefix, p) ==
    /\ IsIPv4Text(addr)
    /\ hasPrefix => IsPrefixText(p, 32)
    /\ HostBitsClear(IPv4Words(addr), 8, IF hasPrefix THEN PrefixLen(p) ELSE 32)

V6Network(v6, hasPrefix, p) ==
    IF /\ v6.raised = ""
       /\ hasPrefix => IsPrefixText(p, 128)
       /\ HostBitsClear(v6.value, 16, IF hasPrefix THEN PrefixLen(p) ELSE 128)
    THEN Ok([class |-> "IPv6Network", words |-> v6.value,
             prefixlen |-> IF hasPrefix THEN PrefixLen(p) ELSE 128])
    ELSE Raise("ValueError")

\* IPv4Network(text), else IPv6Network(text), else ValueError.
Network(addr, hasPrefix, p) ==
    IF V4NetworkOk(addr, hasPrefix, p)
    THEN Ok([class |-> "IPv4Network", words |-> IPv4Words(addr),
             prefixlen |-> IF hasPrefix THEN PrefixLen(p) ELSE 32])
    ELSE V6Network(IPv6Parse(addr), hasPrefix, p)

NetworkOf(pieces) ==
    IF Len(pieces) > 2 THEN Raise("ValueError")
    ELSE IF Len(pieces) = 2 THEN Network(pieces[1], TRUE, pieces[2])
    ELSE Network(pieces[1], FALSE, <<>>)

\* ipaddress.ip_network(text), strict.  A text without "/" is the network of
\* that single address.
ip_network(s) == NetworkOf(Split(s, "/"))

\* ------------------------------------------------------- idna (third party)

\* Characters outside ASCII that the model's texts use, with their code points.
NonAscii   == <<"U+00E9", "U+00EB">>
NonAsciiCp == <<233, 235>>

IsAscii(c) == c \notin Range(NonAscii)
CodePoint(c) == NonAsciiCp[IndexIn(NonAscii, c)]
\* A character's code point as Punycode compares it: basic ones are below 128.
CodeOrBasic(c) == IF IsAscii(c) THEN 0 ELSE CodePoint(c)

\* uts46_remap: upper case maps to lower case; the other characters of the
\* model's texts map to themselves.
Uts46Char(c) == IF c \in Range(Upper) THEN Lower[IndexIn(Upper, c)] ELSE c
Uts46Remap(s) == [i \in 1..Len(s) |-> Uts46Char(s[i])]

\* Punycode (RFC 3492), base 36 with tmin 1, tmax 26, skew 38, damp 700.
PunyDigits == Lower \o DecDigits

RECURSIVE PunyAdaptLoop(_, _)
PunyAdaptLoop(delta, k) ==
    IF delta > 455 THEN PunyAdaptLoop(delta \div 35, k + 36)
    ELSE k + (36 * delta) \div (delta + 38)

PunyAdaptFrom(d0, numpoints) == PunyAdaptLoop(d0 + d0 \div numpoints, 0)
PunyAdapt(delta, numpoints, first) ==
    PunyAdaptFrom(IF first THEN delta \div 700 ELSE delta \div 2, numpoints)

PunyThreshold(k, bias) ==
    IF k <= bias THEN 1 ELSE IF k >= bias + 26 THEN 26 ELSE k - bias

\* A delta as a generalized variable-length integer.
RECURSIVE PunyVarInt(_, _, _)
PunyVarIntAt(q, k, bias, t) ==
    IF q < t THEN <<PunyDigits[q + 1]>>
    ELSE <<PunyDigits[t + ((q - t) % (36 - t)) + 1]>>
         \o PunyVarInt((q - t) \div (36 - t), k + 36, bias)
PunyVarInt(q, k, bias) == PunyVarIntAt(q, k, bias, PunyThreshold(k, bias))

\* One pass over the input for the code point n; st = [delta, bias, h, out].
RECURSIVE PunyPass(_, _, _, _, _)
PunyPassAt(input, i, n, b, st, c) ==
    IF c < n
    THEN PunyPass(input, i + 1, n, b, [st EXCEPT !.delta = @ + 1])
    ELSE IF c = n
    THEN PunyPass(input, i + 1, n, b,
                  [delta |-> 0,
                   bias  |-> PunyAdapt(st.delta, st.h + 1, st.h = b),
                   h     |-> st.h + 1,
                   out   |-> st.out \o PunyVarInt(st.delta, 36, st.bias)])
    ELSE PunyPass(input, i + 1, n, b, st)
PunyPass(input, i, n, b, st) ==
    IF i > Len(input) THEN st
    ELSE PunyPassAt(input, i, n, b, st, CodeOrBasic(input[i]))

\* The smallest code point of the input that is at least n.
NextCodePoint(input, n) ==
    CHOOSE x \in {CodeOrBasic(input[i]) : i \in 1..Len(input)} :
        /\ x >= n
        /\ \A j \in 1..Len(input) : CodeOrBasic(input[j]) >= n => x <= CodeOrBasic(input[j])

RECURSIVE PunyLoop(_, _, _, _)
PunyAfterPass(input, m, b, s1) == PunyLoop(input, m + 1, b, [s1 EXCEPT !.delta = @ + 1])
PunyStep(input, n, b, st, m) ==
    PunyAfterPass(input, m, b,
                  PunyPass(input, 1, m, b,
                           [st EXCEPT !.delta = @ + (m - n) * (st.h + 1)]))
PunyLoop(input, n, b, st) ==
    IF st.h >= Len(input) THEN st.out
    ELSE PunyStep(input, n, b, st, NextCodePoint(input, n))

PunyStart(label, basic) ==
    PunyLoop(label, 128, Len(basic),
             [delta |-> 0, bias |-> 72, h |-> Len(basic),
              out |-> IF Len(basic) > 0 THEN basic \o <<"-">> ELSE basic])
Punycode(label) == PunyStart(label, SelectSeq(label, IsAscii))

\* check_label for the characters of the model's texts: lower-case letters,
\* digits and the hyphen are PVALID, and so are the NonAscii letters; no hyphen
\* first or last, nor in both the third and fourth place.
IsPValid(c) ==
    c \in Range(Lower) \cup Range(DecDigits) \cup {"-"} \cup Range(NonAscii)

LabelOk(label) ==
    /\ Len(label) >= 1
    /\ \A i \in 1..Len(label) : IsPValid(label[i])
    /\ label[1] # "-" /\ label[Len(label)] # "-"
    /\ ~(Len(label) >= 4 /\ label[3] = "-" /\ label[4] = "-")

XnPrefix == <<"x", "n", "-", "-">>

\* An A-label that is already encoded, "xn--...": passed through (the decoding
\* that re-validates its U-label is left out).
IsXnLabel(label) ==
    /\ Len(label) > 4 /\ SubSeq(label, 1, 4) = XnPrefix
    /\ \A i \in 1..Len(label) : IsPValid(label[i]) /\ IsAscii(label[i])
    /\ label[Len(label)] # "-"

\* idna.alabel
alabel(label) ==
    IF IsXnLabel(label) THEN Ok(label)
    ELSE IF ~LabelOk(label) THEN Raise("IDNAError")
    ELSE IF \A i \in 1..Len(label) : IsAscii(label[i]) THEN Ok(label)
    ELSE Ok(XnPrefix \o Punycode(label))

JoinLabels(encoded, trailing) ==
    IF \E i \in 1..Len(encoded) : encoded[i].raised # ""
    THEN Raise("IDNAError")
    ELSE Ok(Join([i \in 1..Len(encoded) |-> encoded[i].value], <<".">>)
            \o (IF trailing THEN <<".">> ELSE <<>>))
EncodeEach(labels, trailing) ==
    JoinLabels([i \in 1..Len(labels) |-> alabel(labels[i])], trailing)
EncodeLabels(labels) ==
    IF Len(labels) > 1 /\ labels[Len(labels)] = <<>>
    THEN EncodeEach(SubSeq(labels, 1, Len(labels) - 1), TRUE)
    ELSE EncodeEach(labels, FALSE)

\* idna.encode(text, uts46=True): remap, split on ".", encode every label (one
\* trailing dot is kept), join.
idna_encode(s) == EncodeLabels(Split(Uts46Remap(s), "."))

\* ------------------------------------------------------- _hostname_to_x509

\* A general name of the subject-alternative-name extension.
IPAddress(ip) == [general_name |-> "IPAddress", ip |-> ip, dns |-> <<>>]
DNSName(text) == [general_name |-> "DNSName", ip |-> NoIP, dns |-> text]

\* Faulty variant: ip_network is tried before ip_address.
IpConverters_NetworkFirst(text) == <<ip_network(text), ip_address(text)>>

\* Lines 96-102: ip_address is tried before ip_network, the first to parse wins.
IpConverters(text) == <<ip_address(text), ip_network(text)>>

StartsWithWildcard(text) == Len(text) >= 2 /\ text[1] = "*" /\ text[2] = "."

\* Lines 105-111: the A-label of a DNS name, a leading "*." kept out of the encoding.
WithWildcard(e) == IF e.raised # "" THEN e ELSE Ok(<<"*", ".">> \o e.value)
AlabelOf(text) ==
    IF StartsWithWildcard(text) THEN WithWildcard(idna_encode(SubSeq(text, 3, Len(text))))
    ELSE idna_encode(text)

\* Line 112
ToDNSName(a) == IF a.raised # "" THEN a ELSE Ok(DNSName(a.value))

\* Lines 96-112: the first converter that parses gives the entry, else the A-label.
FirstMatch(conv, hits, text) ==
    IF hits # {}
    THEN Ok(IPAddress(conv[CHOOSE i \in hits : \A j \in hits : i <= j].value))
    ELSE ToDNSName(AlabelOf(text))
Converted(conv, text) ==
    FirstMatch(conv, {i \in 1..Len(conv) : conv[i].raised = ""}, text)

_hostname_to_x509(hostname) ==
    IF hostname.type # "str" THEN Raise("TypeError")
    ELSE Converted(IpConverters(hostname.chars), hostname.chars)

\* ------------------------------------------------- keys, names, certificates

_KEY_SIZE == 1024

\* rsa.generate_private_key: the n-th key pair drawn.
generate_private_key(n) == [kind |-> "RSAPrivateKey", id |-> n, key_size |-> _KEY_SIZE]
NoKey == [kind |-> "None", id |-> 0, key_size |-> 0]

\* private_key.public_key(): the public half of the same pair.
public_key(private_key) ==
    [kind |-> "RSAPublicKey", id |-> private_key.id, key_size |-> private_key.key_size]

\* random_text(): the n-th draw of twelve random bytes.
random_text(n) == n

\* _name(name): organization "trustme v<version>", organizational unit name.
_name(label, suffix) ==
    [organization_name |-> "trustme v", organizational_unit_name |-> label,
     random |-> suffix]
NoName == [organization_name |-> "", organizational_unit_name |-> "", random |-> 0]

\* x509.SubjectKeyIdentifier.from_public_key: the digest of that public key.
SubjectKeyIdentifier(pub) == [digest_of |-> pub.id]
NoDigest == [digest_of |-> 0]

NoBasicConstraints == [present |-> FALSE, critical |-> FALSE, ca |-> FALSE, path_length |-> {}]
NoKeyIdentifier == [present |-> FALSE, critical |-> FALSE, digest |-> NoDigest]
NoSan == [present |-> FALSE, critical |-> FALSE, names |-> <<>>]
NoSignature == [signer |-> 0, algorithm |-> ""]

\* A certificate (or its builder, while signature = NoSignature).
NoCert ==
    [subject |-> NoName, issuer |-> NoName, public_key |-> NoKey,
     not_valid_before |-> 0, not_valid_after |-> 0, serial_number |-> 0,
     subject_key_identifier |-> NoKeyIdentifier,
     basic_constraints |-> NoBasicConstraints,
     authority_key_identifier |-> NoKeyIdentifier,
     subject_alternative_name |-> NoSan,
     signature |-> NoSignature]

\* _cert_builder_common(subject, issuer, public_key), with the serial number
\* x509.random_serial_number() drew.
_cert_builder_common(subject, issuer, pub, serial) ==
    [NoCert EXCEPT
        !.subject = subject,
        !.issuer = issuer,
        !.public_key = pub,
        !.not_valid_before = 2000,
        !.not_valid_after = 3000,
        !.serial_number = serial,
        !.subject_key_identifier =
            [present |-> TRUE, critical |-> FALSE, digest |-> SubjectKeyIdentifier(pub)]]

\* builder.sign(private_key, SHA256)
sign(builder, private_key) ==
    [builder EXCEPT !.signature = [signer |-> private_key.id, algorithm |-> "SHA256"]]

\* PEM: a bytes value is the sequence of its armoured blocks.
public_bytes(cert) == << [label |-> "CERTIFICATE", cert |-> cert, key |-> NoKey] >>
private_bytes(key) == << [label |-> "RSA PRIVATE KEY", cert |-> NoCert, key |-> key] >>

\* b''.join(parts)
RECURSIVE JoinBytes(_)
JoinBytes(parts) == IF Len(parts) = 0 THEN <<>> ELSE parts[1] \o JoinBytes(Tail(parts))

Blob(data) == [_data |-> data]

\* ------------------------------------------------------------------ class CA

\* CA.__init__, lines 205-207: the key that signs the new CA's certificate.
SignKey(arena, parent_cert, own_key) ==
    IF parent_cert # 0 THEN arena[parent_cert]._private_key ELSE own_key

\* CA.__init__, lines 209-220: the new CA's certificate.
CACertificate(name, sign_key, serial) ==
    sign([_cert_builder_common(name, name, public_key(sign_key), serial)
             EXCEPT !.basic_constraints =
                 [present |-> TRUE, critical |-> TRUE, ca |-> TRUE, path_length |-> {9}]],
         sign_key)

\* CA.__init__(parent_cert): the object the n-th construction builds.
CAObject(parent_cert, key, cert) ==
    [parent_cert |-> parent_cert,
     _private_key |-> key,
     _certificate |-> cert,
     cert_pem |-> Blob(public_bytes(cert))]
CAWithKey(arena, parent_cert, n, key) ==
    CAObject(parent_cert, key,
             CACertificate(_name("Testing CA #", random_text(n)),
                           SignKey(arena, parent_cert, key), n))
NewCA(arena, parent_cert, n) == CAWithKey(arena, parent_cert, n, generate_private_key(n))

\* Faulty variant: constructing a child hands the parent the child's key.
Constructed_RekeysParent(arena, parent_cert, n) ==
    LET grown == Append(arena, NewCA(arena, parent_cert, n))
    IN  IF parent_cert = 0 THEN grown
        ELSE [grown EXCEPT ![parent_cert]._private_key = generate_private_key(n)]

\* The objects after CA(parent_cert) was constructed: the new one is added,
\* the others are as they were.
Constructed(arena, parent_cert, n) == Append(arena, NewCA(arena, parent_cert, n))

\* --------------------------------------------------------------- class LeafCert

NoLeafArgs == [private_key_pem |-> <<>>, server_cert_pem |-> <<>>, chain_to_ca |-> <<>>]
NoLeaf ==
    [private_key_pem |-> Blob(<<>>), cert_chain_pems |-> <<>>,
     private_key_and_cert_chain_pem |-> Blob(<<>>)]

\* Faulty variant: the chain is put before the leaf's certificate.
LeafCert_ChainFirst(private_key_pem, server_cert_pem, chain_to_ca) ==
    LET pems == chain_to_ca \o <<server_cert_pem>>
    IN  [private_key_pem |-> Blob(private_key_pem),
         cert_chain_pems |-> [i \in 1..Len(pems) |-> Blob(pems[i])],
         private_key_and_cert_chain_pem |->
             Blob(private_key_pem \o JoinBytes(chain_to_ca) \o server_cert_pem)]

\* LeafCert.__init__(private_key_pem, server_cert_pem, chain_to_ca)
Blobs(pems) == [i \in 1..Len(pems) |-> Blob(pems[i])]
LeafCert(private_key_pem, server_cert_pem, chain_to_ca) ==
    [private_key_pem |-> Blob(private_key_pem),
     cert_chain_pems |-> Blobs(<<server_cert_pem>> \o chain_to_ca),
     private_key_and_cert_chain_pem |->
         Blob(private_key_pem \o server_cert_pem \o JoinBytes(chain_to_ca))]

\* ------------------------------------------------------- CA.issue_server_cert

\* Faulty variant: a hostname given twice yields one entry.
SanEntries_Dedup(hostnames) ==
    LET each == [i \in 1..Len(hostnames) |-> _hostname_to_x509(hostnames[i])]
        bad  == {i \in 1..Len(hostnames) : each[i].raised # ""}
        keep == {i \in 1..Len(hostnames) : \A j \in 1..(i - 1) : hostnames[j] # hostnames[i]}
        F[i \in 0..Len(hostnames)] ==
            IF i = 0 THEN <<>>
            ELSE IF i \in keep THEN Append(F[i - 1], each[i].value) ELSE F[i - 1]
    IN  IF bad # {}
        THEN Raise(each[CHOOSE i \in bad : \A j \in bad : i <= j].raised)
        ELSE Ok(F[Len(hostnames)])

\* Faulty variant: a hostname that cannot be classified is left out instead of
\* ending the call.
SanEntries_SkipInvalid(hostnames) ==
    LET each == [i \in 1..Len(hostnames) |-> _hostname_to_x509(hostnames[i])]
        F[i \in 0..Len(hostnames)] ==
            IF i = 0 THEN <<>>
            ELSE IF each[i].raised = "" THEN Append(F[i - 1], each[i].value) ELSE F[i - 1]
    IN  Ok(F[Len(hostnames)])

\* Lines 277-279: [_hostname_to_x509(h) for h in hostnames]; the first hostname
\* that raises ends the comprehension with its exception.
Collected(each, bad) ==
    IF bad # {}
    THEN Raise(each[CHOOSE i \in bad : \A j \in bad : i <= j].raised)
    ELSE Ok([i \in 1..Len(each) |-> each[i].value])
CollectedFrom(each) == Collected(each, {i \in 1..Len(each) : each[i].raised # ""})
SanEntries(hostnames) ==
    CollectedFrom([i \in 1..Len(hostnames) |-> _hostname_to_x509(hostnames[i])])

\* Faulty variant: the authority key identifier is computed from the leaf's own key.
LeafCertificate_AkiFromLeafKey(ca, key, n, san) ==
    sign([_cert_builder_common(_name("Testing server cert #", random_text(n)),
                               ca._certificate.subject, public_key(key), n)
             EXCEPT !.basic_constraints =
                        [present |-> TRUE, critical |-> TRUE, ca |-> FALSE,
                         path_length |-> {}],
                    !.authority_key_identifier =
                        [present |-> TRUE, critical |-> FALSE,
                         digest |-> SubjectKeyIdentifier(public_key(key))],
                    !.subject_alternative_name =
                        [present |-> TRUE, critical |-> TRUE, names |-> san]],
         ca._private_key)

\* Lines 258-287: the leaf's certificate.
LeafCertificate(ca, key, n, san) ==
    sign([_cert_builder_common(_name("Testing server cert #", random_text(n)),
                               ca._certificate.subject, public_key(key), n)
             EXCEPT !.basic_constraints =
                        [present |-> TRUE, critical |-> TRUE, ca |-> FALSE,
                         path_length |-> {}],
                    !.authority_key_identifier =
                        [present |-> TRUE, critical |-> FALSE,
                         digest |-> ca._certificate.subject_key_identifier.digest],
                    !.subject_alternative_name =
                        [present |-> TRUE, critical |-> TRUE, names |-> san]],
         ca._private_key)

\* Faulty variant: the walk stops after the root instead of before it.
RECURSIVE ChainToCA_WithRoot(_, _)
ChainToCA_WithRoot(arena, ca) ==
    IF ca = 0 THEN <<>>
    ELSE <<public_bytes(arena[ca]._certificate)>>
         \o ChainToCA_WithRoot(arena, arena[ca].parent_cert)

\* Faulty variant: the walk starts at the issuer's parent.
RECURSIVE ChainToCA_AboveIssuer(_, _)
ChainToCA_AboveIssuer(arena, ca) ==
    IF arena[ca].parent_cert = 0 \/ arena[arena[ca].parent_cert].parent_cert = 0 THEN <<>>
    ELSE <<public_bytes(arena[arena[ca].parent_cert]._certificate)>>
         \o ChainToCA_AboveIssuer(arena, arena[ca].parent_cert)

\* Lines 289-293: the certificates from self up the parent links, the one
\* without a parent left out.
RECURSIVE ChainToCA(_, _)
ChainToCA(arena, ca) ==
    IF arena[ca].parent_cert = 0 THEN <<>>
    ELSE <<public_bytes(arena[ca]._certificate)>> \o ChainToCA(arena, arena[ca].parent_cert)

\* The outcome of self.issue_server_cert(*hostnames) as the n-th construction.
IssueWith(arena, self, n, key, san) ==
    IF san.raised # "" THEN san
    ELSE Ok([private_key_pem |-> private_bytes(key),
             server_cert_pem |->
                 public_bytes(LeafCertificate(arena[self], key, n, san.value)),
             chain_to_ca |-> ChainToCA(arena, self)])
IssueOutcome(arena, self, hostnames, n) ==
    IF Len(hostnames) = 0 THEN Raise("ValueError")
    ELSE IssueWith(arena, self, n, generate_private_key(n), SanEntries(hostnames))

\* ------------------------------------------------------------------- inputs

Str(chars) == [type |-> "str", chars |-> chars]
Bytes(chars) == [type |-> "bytes", chars |-> chars]

ExampleOrg == <<"e", "x", "a", "m", "p", "l", "e", ".", "o", "r", "g">>
ExampleCom == <<"e", "x", "a", "m", "p", "l", "e", ".", "c", "o", "m">>
Localhost4 == <<"1", "2", "7", ".", "0", ".", "0", ".", "1">>
Localhost6 == <<":", ":", "1">>
Net4 == <<"1", "0", ".", "0", ".", "0", ".", "0", "/", "8">>
Net6 == <<"2", "0", "0", "1", ":", ":", "/", "1", "6">>
Net4HostBits == <<"1", "0", ".", "0", ".", "0", ".", "1", "/", "8">>
Mapped4 == <<":", ":", "f", "f", "f", "f", ":", "1", ".", "2", ".", "3", ".", "4">>
EmptyLabel == <<"a", ".", ".", "b">>
IdnOrg == <<"U+00E9", "x", "a", "m", "p", "l", "U+00EB", ".", "o", "r", "g">>
IdnOrgAlabel == <<"x", "n", "-", "-", "x", "a", "m", "p", "l", "-", "9", "r", "a", "t",
                  ".", "o", "r", "g">>
CafeCom == <<"c", "a", "f", "U+00E9", ".">> \o ExampleCom
CafeComAlabel == <<"x", "n", "-", "-", "c", "a", "f", "-", "d", "m", "a", ".">> \o ExampleCom
UpperOrg == <<"E", "x", "a", "m", "p", "l", "e", ".", "O", "R", "G">>
Wild(text) == <<"*", ".">> \o text

\* The hostnames of the classification specification: the forms the source
\* lists (lines 79-87, 236-243), their wildcard variants, and texts no form fits.
Hostnames ==
    { Str(ExampleOrg), Str(IdnOrg), Str(IdnOrgAlabel), Str(Localhost4),
      Str(Localhost6), Str(Net4), Str(Net6), Str(Wild(ExampleCom)),
      Str(Wild(IdnOrg)), Str(CafeCom), Str(UpperOrg), Str(Mapped4),
      Str(Net4HostBits), Str(EmptyLabel), Str(<<>>), Str(Wild(Localhost4)),
      Bytes(ExampleOrg) }

\* The hostnames of the tree specification.
TreeHostnames == { Str(ExampleOrg), Str(Localhost6), Str(EmptyLabel), Bytes(ExampleOrg) }

\* The tuples over S of length 0..n.
RECURSIVE TuplesUpTo(_, _)
TuplesUpTo(S, n) ==
    IF n = 0 THEN { <<>> }
    ELSE LET shorter == TuplesUpTo(S, n - 1)
         IN  shorter \cup { Append(t, x) : t \in {u \in shorter : Len(u) = n - 1}, x \in S }

\* Argument tuples of issue_server_cert: any mix of a few hostnames (tree
\* specification), every single hostname (classification specification).
TreeArgs == TuplesUpTo(TreeHostnames, MaxHosts)
SanArgs == { <<h>> : h \in Hostnames }

\* -------------------------------------------------------------- state machine

\* ret: the last call, its arguments and what it returned or raised.
NoCall ==
    [op |-> "", self |-> 0, hostnames |-> <<>>, raised |-> "", ca |-> 0,
     leaf_args |-> NoLeafArgs, leaf |-> NoLeaf]

Init ==
    /\ cas = <<>>
    /\ generated = 0
    /\ ret = NoCall

\* CA()
ConstructCA ==
    /\ generated < MaxObjects
    /\ cas' = Constructed(cas, 0, generated + 1)
    /\ generated' = generated + 1
    /\ ret' = [NoCall EXCEPT !.op = "CA", !.ca = Len(cas) + 1]

\* self.create_child_ca(): CA(parent_cert=self)
CreateChildCA(self) ==
    /\ generated < MaxObjects
    /\ cas' = Constructed(cas, self, generated + 1)
    /\ generated' = generated + 1
    /\ ret' = [NoCall EXCEPT !.op = "create_child_ca", !.self = self,
                             !.ca = Len(cas) + 1]

\* issue_server_cert assigns no attribute of any CA.
AfterIssue(arena, self, n) == arena

\* self.issue_server_cert(*hostnames)
Returned(self, hostnames, out) ==
    IF out.raised # ""
    THEN [NoCall EXCEPT !.op = "issue_server_cert", !.self = self,
                        !.hostnames = hostnames, !.raised = out.raised]
    ELSE [NoCall EXCEPT !.op = "issue_server_cert", !.self = self,
                        !.hostnames = hostnames,
                        !.leaf_args = out.value,
                        !.leaf = LeafCert(out.value.private_key_pem,
                                          out.value.server_cert_pem,
                                          out.value.chain_to_ca)]
IssueServerCert(self, hostnames) ==
    /\ Len(hostnames) > 0 => generated < MaxObjects
    /\ generated' = IF Len(hostnames) = 0 THEN generated ELSE generated + 1
    /\ cas' = AfterIssue(cas, self, generated + 1)
    /\ ret' = Returned(self, hostnames, IssueOutcome(cas, self, hostnames, generated + 1))

Next ==
    \/ ConstructCA
    \/ \E self \in 1..Len(cas) : CreateChildCA(self)
    \/ \E self \in 1..Len(cas) : \E hostnames \in TreeArgs : IssueServerCert(self, hostnames)

Spec == Init /\ [][Next]_vars

\* The classification specification: the same calls, one hostname per
\* issue_server_cert, drawn from every form of hostname.
NextSan ==
    \/ ConstructCA
    \/ \E self \in 1..Len(cas) : CreateChildCA(self)
    \/ \E self \in 1..Len(cas) : \E hostnames \in SanArgs : IssueServerCert(self, hostnames)

SpecSan == Init /\ [][NextSan]_vars

\* ------------------------------------------------------------------ properties

\* The last call was issue_server_cert and it returned a LeafCert.
LeafReturned == ret.op = "issue_server_cert" /\ ret.raised = ""

\* x509.load_pem_x509_certificate of a one-certificate PEM.
LoadCert(pem) == pem[1].cert

\* What the returned LeafCert exposes: its certificate and its chain list.
LeafCertOf(leaf) == LoadCert(leaf.cert_chain_pems[1]._data)
ChainOf(leaf) ==
    [k \in 1..(Len(leaf.cert_chain_pems) - 1) |-> leaf.cert_chain_pems[k + 1]._data]

\* The number of create_child_ca calls between a root and CA i, and the CA
\* k parent links above CA i.
RECURSIVE Depth(_)
Depth(i) == IF cas[i].parent_cert = 0 THEN 0 ELSE 1 + Depth(cas[i].parent_cert)
RECURSIVE Ancestor(_, _)
Ancestor(i, k) == IF k = 0 THEN i ELSE Ancestor(cas[i].parent_cert, k - 1)

\* The CA that holds the private key a certificate was signed with.
SignerOf(cert) == CHOOSE j \in 1..Len(cas) : cas[j]._private_key.id = cert.signature.signer

\* C1: every CA's certificate carries the public key of that CA's own key
\* pair, the pair it signs leaf certificates with.  (The code fails this for a
\* child CA: its certificate carries the parent's public key.)
C1_OwnPublicKey ==
    \A i \in 1..Len(cas) :
        cas[i]._certificate.public_key = public_key(cas[i]._private_key)

\* C4: every CA certificate's issuer name is the subject name of the
\* certificate of the CA whose private key signed it.  (The code fails this
\* for a child CA: it is signed by the parent and names itself as issuer.)
C4_IssuerIsSignerSubject ==
    \A i \in 1..Len(cas) :
        cas[i]._certificate.issuer = cas[SignerOf(cas[i]._certificate)]._certificate.subject

\* C2: a returned leaf's chain list is the certificates of the CAs on the
\* parent path from the issuing CA up to, not including, the root: the issuing
\* CA's first, the root's direct child last; empty when the issuer is a root.
C2_ChainIsParentPath ==
    LeafReturned =>
        LET chain == ChainOf(ret.leaf)
            d     == Depth(ret.self)
        IN  /\ Len(chain) = d
            /\ \A k \in 1..d :
                   /\ chain[k] = cas[Ancestor(ret.self, k - 1)].cert_pem._data
                   /\ cas[Ancestor(ret.self, k - 1)].parent_cert # 0
            /\ cas[Ancestor(ret.self, d)].parent_cert = 0
            /\ \A k \in 1..d :
                   LoadCert(chain[k]) # cas[Ancestor(ret.self, d)]._certificate

\* C2 witness: a leaf issued by a grandchild CA, its chain the grandchild's
\* certificate and then the child's.
C2_Witness ==
    /\ LeafReturned
    /\ Depth(ret.self) >= 2
    /\ ChainOf(ret.leaf)[1] = cas[ret.self].cert_pem._data

\* C3 as stated: a leaf issued by a CA N >= 1 levels deep has N - 1 chain entries.
C3_Original ==
    (LeafReturned /\ Depth(ret.self) >= 1) =>
        Len(ChainOf(ret.leaf)) = Depth(ret.self) - 1

\* C3 as amended: a leaf issued by a CA N >= 1 levels deep has exactly N chain
\* entries (the issuing CA's own certificate is one of them).
C3_ChainLength ==
    (LeafReturned /\ Depth(ret.self) >= 1) =>
        Len(ChainOf(ret.leaf)) = Depth(ret.self)

\* C3 witness: a leaf issued one level deep, with one chain entry.
C3_Witness ==
    /\ LeafReturned
    /\ Depth(ret.self) = 1
    /\ Len(ChainOf(ret.leaf)) = 1

\* C5: the leaf's subject-alternative-name extension has one entry per
\* hostname, entry i the classification of hostname i, duplicates kept.
C5_SanPerHostname ==
    LeafReturned =>
        LET san == LeafCertOf(ret.leaf).subject_alternative_name
        IN  /\ san.present
            /\ Len(san.names) = Len(ret.hostnames)
            /\ \A i \in 1..Len(ret.hostnames) :
                   san.names[i] = _hostname_to_x509(ret.hostnames[i]).value

\* C5 witness: a leaf for the same hostname given twice, with two entries.
C5_Witness ==
    /\ LeafReturned
    /\ Len(ret.hostnames) = 2
    /\ ret.hostnames[1] = ret.hostnames[2]
    /\ Len(LeafCertOf(ret.leaf).subject_alternative_name.names) = 2

\* C7: the leaf's authority key identifier is the subject key identifier of
\* the certificate of the CA that issued it, and the leaf's issuer name is that
\* certificate's subject name.
C7_AuthorityKeyIdentifier ==
    LeafReturned =>
        LET leaf   == LeafCertOf(ret.leaf)
            issuer == cas[ret.self]._certificate
        IN  /\ leaf.authority_key_identifier.present
            /\ issuer.subject_key_identifier.present
            /\ leaf.authority_key_identifier.digest = issuer.subject_key_identifier.digest
            /\ leaf.issuer = issuer.subject

\* C7 witness: a leaf issued by a child CA.
C7_Witness ==
    /\ LeafReturned
    /\ cas[ret.self].parent_cert # 0
    /\ LeafCertOf(ret.leaf).issuer = cas[ret.self]._certificate.subject

\* C6: the classifier's first match decides the variant: a text that parses
\* as a single address is an address entry and never a network entry, else a
\* text that parses as a network is a network entry, else the entry is a DNS
\* name holding the IDNA A-label, a leading "*." being set aside for the
\* encoding and put back in front of its result.
C6_Classification ==
    LeafReturned =>
        LET san == LeafCertOf(ret.leaf).subject_alternative_name.names
        IN  \A i \in 1..Len(ret.hostnames) :
                LET h == ret.hostnames[i].chars
                    e == san[i]
                    a == ip_address(h)
                    n == ip_network(h)
                IN  /\ a.raised = "" =>
                           /\ e = IPAddress(a.value)
                           /\ e.ip.class \in {"IPv4Address", "IPv6Address"}
                    /\ (a.raised # "" /\ n.raised = "") =>
                           /\ e = IPAddress(n.value)
                           /\ e.ip.class \in {"IPv4Network", "IPv6Network"}
                    /\ (a.raised # "" /\ n.raised # "") =>
                           /\ e.general_name = "DNSName" /\ e.ip = NoIP
                           /\ e.dns = IF StartsWithWildcard(h)
                                      THEN <<"*", ".">>
                                           \o idna_encode(SubSeq(h, 3, Len(h))).value
                                      ELSE idna_encode(h).value
                    /\ h = Localhost4 =>
                           e.ip = [class |-> "IPv4Address", words |-> <<127, 0, 0, 1>>,
                                   prefixlen |-> 32]
                    /\ h = Localhost6 => e.ip.class = "IPv6Address"
                    /\ h = Net4 =>
                           e.ip = [class |-> "IPv4Network", words |-> <<10, 0, 0, 0>>,
                                   prefixlen |-> 8]
                    /\ h = Net6 => e.ip.class = "IPv6Network" /\ e.ip.prefixlen = 16
                    /\ h = Wild(ExampleCom) => e = DNSName(Wild(ExampleCom))
                    /\ h = CafeCom => e = DNSName(CafeComAlabel)
                    /\ h = Wild(IdnOrg) => e = DNSName(Wild(IdnOrgAlabel))

\* C6 witness: a leaf for "127.0.0.1", which parses both as an address and as
\* a network, holding an address entry.
C6_Witness ==
    /\ LeafReturned
    /\ ret.hostnames = <<Str(Localhost4)>>
    /\ ip_network(Localhost4).raised = ""
    /\ LeafCertOf(ret.leaf).subject_alternative_name.names[1].ip.class = "IPv4Address"

\* The first hostname of a call that is not text or has no A-label, 0 if none.
FirstBad(hostnames) ==
    LET bad == {i \in 1..Len(hostnames) :
                    \/ hostnames[i].type # "str"
                    \/ _hostname_to_x509(hostnames[i]).raised # ""}
    IN  IF bad = {} THEN 0 ELSE CHOOSE i \in bad : \A j \in bad : i <= j

\* A complete LeafCert: a private key, the leaf's certificate, the chain.
CompleteLeaf(leaf) ==
    /\ Len(leaf.private_key_pem._data) = 1
    /\ leaf.private_key_pem._data[1].label = "RSA PRIVATE KEY"
    /\ Len(leaf.cert_chain_pems) >= 1
    /\ LeafCertOf(leaf).signature # NoSignature
    /\ ~LeafCertOf(leaf).basic_constraints.ca

\* What C8 says of every call but the exception a non-text hostname ends in:
\* no CA changes; no hostname is a ValueError; a failing call returns no
\* LeafCert; a call that does not fail returns a complete one.
C8_Atomic ==
    /\ cas' = cas
    /\ Len(ret'.hostnames) = 0 => ret'.raised = "ValueError"
    /\ ret'.raised # "" => (ret'.leaf = NoLeaf /\ ret'.ca = 0)
    /\ ret'.raised = "" => CompleteLeaf(ret'.leaf)

\* C8 as stated: issue_server_cert is atomic, and a call with any non-text
\* hostname fails with a type error.
C8_Original ==
    [][ret'.op = "issue_server_cert" =>
          /\ C8_Atomic
          /\ (\E i \in 1..Len(ret'.hostnames) : ret'.hostnames[i].type # "str")
                 => ret'.raised = "TypeError"]_vars

\* C8 as amended: issue_server_cert is atomic, and a call with a non-text
\* hostname fails: with a type error when every hostname before the first
\* non-text one can be classified, and otherwise with the IDNA encoding error
\* of the first hostname that cannot.
C8_FailureAtomic ==
    [][ret'.op = "issue_server_cert" =>
          LET hs == ret'.hostnames
              b  == FirstBad(hs)
          IN  /\ C8_Atomic
              /\ (\E i \in 1..Len(hs) : hs[i].type # "str") => ret'.raised # ""
              /\ b # 0 => ret'.raised = IF hs[b].type # "str" THEN "TypeError"
                                        ELSE "IDNAError"
              /\ (Len(hs) > 0 /\ b = 0) => ret'.raised = ""]_vars

\* C8 witness: a call with a malformed name before a non-text hostname failed
\* with the encoder's error and returned no LeafCert.
C8_Witness ==
    /\ ret.op = "issue_server_cert"
    /\ ret.hostnames = <<Str(EmptyLabel), Bytes(ExampleOrg)>>
    /\ ret.raised = "IDNAError"
    /\ ret.leaf = NoLeaf

\* C9: cert_chain_pems is the leaf's certificate and then the chain, in chain
\* order; private_key_and_cert_chain_pem is the private key, the leaf's
\* certificate, then each chain certificate in the same order, nothing else.
C9_LeafLayout ==
    LeafReturned =>
        LET a      == ret.leaf_args
            pems   == ret.leaf.cert_chain_pems
            bundle == ret.leaf.private_key_and_cert_chain_pem._data
            n      == Len(a.chain_to_ca)
        IN  /\ Len(pems) = 1 + n
            /\ pems[1]._data = a.server_cert_pem
            /\ ~LoadCert(pems[1]._data).basic_constraints.ca
            /\ \A k \in 1..n : pems[k + 1]._data = a.chain_to_ca[k]
            /\ ret.leaf.private_key_pem._data = a.private_key_pem
            /\ Len(bundle) = 2 + n
            /\ <<bundle[1]>> = a.private_key_pem
            /\ <<bundle[2]>> = a.server_cert_pem
            /\ \A k \in 1..n : <<bundle[2 + k]>> = a.chain_to_ca[k]

\* C9 witness: a leaf with two chain certificates, four blocks in its bundle.
C9_Witness ==
    /\ LeafReturned
    /\ Len(ret.leaf_args.chain_to_ca) = 2
    /\ Len(ret.leaf.private_key_and_cert_chain_pem._data) = 4

\* C10: no call changes a CA that was already constructed: its key pair, its
\* certificate, its cert_pem and its parent link stay as they were.
C10_CAsImmutable ==
    [][\A i \in 1..Len(cas) : Len(cas') >= i /\ cas'[i] = cas[i]]_vars

\* C10 witness: a CA with two children issued a leaf after both were created.
C10_Witness ==
    /\ Len(cas) >= 3
    /\ cas[2].parent_cert = 1 /\ cas[3].parent_cert = 1
    /\ LeafReturned
    /\ ret.self = 1
    /\ cas[1].cert_pem = Blob(public_bytes(cas[1]._certificate))

====
